---- MODULE Spec2Model ----
(***************************************************************************)
(* Model of roles/lib_openshift/library/oc_csr_approve.py: one run of      *)
(* run_module against a cluster whose nodes, CSR queue and node health     *)
(* endpoints are the environment.                                          *)
(*                                                                         *)
(* Text is modelled as a sequence of tokens.  The separators the code      *)
(* splits on ("/", ",", "=", the blank, the newline) and the literals it   *)
(* compares with ("subject=", "CN", "system:node:") are one token each;    *)
(* the other tokens are words that contain none of them.                   *)
(***************************************************************************)
EXTENDS Naturals, Integers, Sequences, FiniteSets, TLC

\* ------------------------------------------------------------------ bounds
\* Most CSRs the cluster holds during one run.
MaxCsrs == 2
\* Most CSRs of the listing approve_csrs is explored on by itself.
MaxMatched == 3
\* The attempts counter of verify_server_csrs is tracked up to this value
\* and then saturates (the code's integer is unbounded).
AttemptsCap == 10

\* ------------------------------------------------------------------ text
Range(s) == {s[i] : i \in 1..Len(s)}

IsBlank(t) == t \in {" ", "\n"}

\* str.strip()
RECURSIVE LStrip(_)
LStrip(s) == IF s # <<>> /\ IsBlank(Head(s)) THEN LStrip(Tail(s)) ELSE s

RECURSIVE RStrip(_)
RStrip(s) ==
    IF s # <<>> /\ IsBlank(s[Len(s)]) THEN RStrip(SubSeq(s, 1, Len(s) - 1)) ELSE s

Strip(s) == RStrip(LStrip(s))

\* str.split(sep) with a one-token separator: always at least one part.
RECURSIVE Split(_, _)
Split(s, sep) ==
    IF \A i \in 1..Len(s) : s[i] # sep
    THEN <<s>>
    ELSE LET i == CHOOSE j \in 1..Len(s) :
                      s[j] = sep /\ \A k \in 1..(j - 1) : s[k] # sep
         IN  <<SubSeq(s, 1, i - 1)>> \o Split(SubSeq(s, i + 1, Len(s)), sep)

StripAll(parts) == [i \in 1..Len(parts) |-> Strip(parts[i])]

\* The for loop of parse_subject_cn over kv_strings: the first item whose key
\* is CN decides; an item "CN" without "=" has no item_parts[1].
RECURSIVE FindCN(_)
FindCN(kv_strings) ==
    IF kv_strings = <<>>
    THEN [kind |-> "None", val |-> <<>>]
    ELSE LET item_parts == StripAll(Split(Head(kv_strings), "="))
         IN  IF item_parts[1] = <<"CN">>
             THEN IF Len(item_parts) >= 2
                  THEN [kind |-> "str", val |-> item_parts[2]]
                  ELSE [kind |-> "IndexError", val |-> <<>>]
             ELSE FindCN(Tail(kv_strings))

\* subject_str[len('subject='):] : the output of openssl req -noout -subject
\* starts with the token "subject=" (or is empty).
DropSubjectPrefix(subject_str) ==
    IF subject_str = <<>> THEN <<>> ELSE Tail(subject_str)

\* What parse_subject_cn gives when its loop ends without a CN: None.
NotFound == [kind |-> "None", val |-> <<>>]

parse_subject_cn(subject_str) ==
    LET stripped_string == Strip(DropSubjectPrefix(subject_str))
        by_comma == StripAll(Split(stripped_string, ","))
        kv_strings == IF Len(by_comma) = 1
                      THEN Tail(StripAll(Split(stripped_string, "/")))
                      ELSE by_comma
    IN  FindCN(kv_strings)


\* ------------------------------------------------------------------ data
N1 == <<"n1">>
N2 == <<"n2">>

\* module.params['node_list'] of the runs explored.
Rosters == {<<N1, N2>>}

\* spec.request payloads, and what `openssl req -noout -subject` prints for
\* each: rc and stdout of module.run_command.
Requests == {"slash_n1", "comma_n2", "slash_x", "twice", "no_cn", "garbage"}

openssl(request) ==
    CASE request = "slash_n1" ->
           [rc |-> 0, stdout |-> <<"subject=", "/", "O", "=", "org", "/",
                                   "CN", "=", "system:node:", "n1", "\n">>]
      [] request = "comma_n2" ->
           [rc |-> 0, stdout |-> <<"subject=", "O", " ", "=", " ", "org", ",", " ",
                                   "CN", " ", "=", " ", "system:node:", "n2", "\n">>]
      [] request = "slash_x" ->
           [rc |-> 0, stdout |-> <<"subject=", "/", "O", "=", "org", "/",
                                   "CN", "=", "system:node:", "x", "\n">>]
      [] request = "twice" ->
           [rc |-> 0, stdout |-> <<"subject=", "/", "CN", "=", "system:node:", "n1",
                                   "system:node:", "x", "\n">>]
      [] request = "no_cn" ->
           [rc |-> 0, stdout |-> <<"subject=", "/", "O", "=", "org", "\n">>]
      [] OTHER -> [rc |-> 1, stdout |-> <<>>]

Shape(conditions, usages, request) ==
    [conditions |-> conditions, usages |-> usages, request |-> request]

ClientAuth == {"client auth"}
ServerAuth == {"server auth"}
BothAuth == {"client auth", "server auth"}

\* The items of `oc get csr -ojson` explored, without their names: pending
\* ones (no status condition) of each usage and subject, and approved ones.
CsrShapes ==
    { Shape(<<>>, ClientAuth, "slash_n1"),
      Shape(<<>>, ClientAuth, "comma_n2"),
      Shape(<<>>, ClientAuth, "slash_x"),
      Shape(<<>>, ClientAuth, "twice"),
      Shape(<<>>, ClientAuth, "no_cn"),
      Shape(<<>>, BothAuth, "garbage"),
      Shape(<<>>, ServerAuth, "slash_n1"),
      Shape(<<>>, ServerAuth, "comma_n2"),
      Shape(<<>>, BothAuth, "slash_n1"),
      Shape(<<"Approved">>, ClientAuth, "slash_n1"),
      Shape(<<"Approved">>, BothAuth, "comma_n2") }

\* Sequences of at most n shapes.
ShapeLists(n) == UNION {[1..k -> CsrShapes] : k \in 0..n}

\* ------------------------------------------------------------------ matching
CertModeClientOnly(mode) == "client auth"

CERT_MODE(mode) == IF mode = "client" THEN "client auth" ELSE "server auth"

\* csr_dict[name] = common_name on an insertion-ordered dict, kept as a
\* sequence of <<key, value>> pairs.
DictSet(d, key, val) ==
    IF \E i \in 1..Len(d) : d[i][1] = key
    THEN [i \in 1..Len(d) |-> IF d[i][1] = key THEN <<key, val>> ELSE d[i]]
    ELSE Append(d, <<key, val>>)

Keys(d) == {d[i][1] : i \in 1..Len(d)}
Values(d) == {d[i][2] : i \in 1..Len(d)}

\* Lines 148-150: a truthy common name that starts with system:node: is
\* replaced by common_name.split('system:node:')[1].
StripNodePrefix(common_name) ==
    IF common_name # <<>> /\ Head(common_name) = "system:node:"
    THEN Split(common_name, "system:node:")[2]
    ELSE common_name

RunCommandNeverFailed(rtnc) == FALSE

\* Line 61 of run_command: `if rtnc:` fails the module.
RunCommandFailed(rtnc) == rtnc # 0

NotPendingNever(item) == FALSE

\* Lines 133-136: an item with status conditions is not pending.
NotPending(item) == item.conditions # <<>>

\* The for loop of process_csrs from the item at the head of `csrs` on, with
\* the dictionary built so far.  kind is "return" (the dictionary is the
\* result), "fail_json" (run_command failed the module) or "exception".
RECURSIVE ScanCsrs(_, _, _, _)
ScanCsrs(csrs, node_list, mode, csr_dict) ==
    IF csrs = <<>>
    THEN [kind |-> "return", csr_dict |-> csr_dict]
    ELSE LET item == Head(csrs)
             rest == Tail(csrs)
         IN  IF NotPending(item)
             THEN ScanCsrs(rest, node_list, mode, csr_dict)
             ELSE IF CERT_MODE(mode) \notin item.usages
             THEN ScanCsrs(rest, node_list, mode, csr_dict)
             ELSE LET out == openssl(item.request)
                  IN  IF RunCommandFailed(out.rc)
                      THEN [kind |-> "fail_json", csr_dict |-> csr_dict]
                      ELSE LET cn == parse_subject_cn(out.stdout)
                           IN  IF cn.kind = "IndexError"
                               THEN [kind |-> "exception", csr_dict |-> csr_dict]
                               ELSE IF cn.kind = "None"
                               THEN ScanCsrs(rest, node_list, mode, csr_dict)
                               ELSE LET common_name == StripNodePrefix(cn.val)
                                    IN  IF common_name \in Range(node_list)
                                        THEN ScanCsrs(rest, node_list, mode,
                                                 DictSet(csr_dict, item.name, common_name))
                                        ELSE ScanCsrs(rest, node_list, mode, csr_dict)

process_csrs(csrs, node_list, mode) == ScanCsrs(csrs, node_list, mode, <<>>)

NodesNeededNone(not_ready_nodes, csr_dict) == {}

NodesNeededWithoutDiscard(not_ready_nodes, csr_dict) == Range(not_ready_nodes)

\* nodes_needed of confirm_needed_requests_present after the discards.
nodes_needed(not_ready_nodes, csr_dict) == Range(not_ready_nodes) \ Values(csr_dict)

\* [item for item in node_list if item not in ready]
NotIn(node_list, ready) == SelectSeq(node_list, LAMBDA item : item \notin ready)


\* ------------------------------------------------------------------ state
VARIABLES
    node_list,              \* module.params['node_list']
    cluster,                \* the CSRs of the cluster, oldest first
    pc,                     \* the statement run_module is at
    mode,                   \* the phase: "client" or "server"
    status,                 \* "running", "exit_json", "fail_json", "exception"
    output,                 \* the dictionary given to exit_json or fail_json
    result,                 \* run_module's result dictionary
    not_ready_nodes,        \* line 255
    not_ready_nodes_server, \* line 277
    csrs,                   \* the latest get_csrs listing
    csr_dict,               \* the latest process_csrs dictionary
    next_csr,               \* position of approve_csrs in csr_dict
    approve_results,        \* approve_csrs' list
    nodes_server_ready,     \* the latest get_ready_nodes_server answer
    poll_not_ready,         \* not_ready_nodes_server of verify_server_csrs
    attempts,               \* attempts of verify_server_csrs
    probed,                 \* the nodes the latest get_ready_nodes_server probed
    subject_str,            \* line 145: stdout of openssl req -noout -subject
    common_name,            \* lines 147-150: common_name of process_csrs
    python,                 \* major version of the interpreter running the module
    params,                 \* module.params of the elasticsearch topology module
    node_topology,          \* OpenshiftESTopology._node_topology
    facts,                  \* self.facts of the elasticsearch modules
    dcs,                    \* the deployment configs of the logging namespace
    oc_empty,               \* how `oc get` reports a selector that matches nothing
    selector,               \* OpenshiftESDCFacts.selector
    approved,               \* history: every approve command run, in order
    ops                     \* history: the operations begun, as <<name, phase>>

vars == <<node_list, cluster, pc, mode, status, output, result, not_ready_nodes,
          not_ready_nodes_server, csrs, csr_dict, next_csr, approve_results,
          nodes_server_ready, poll_not_ready, attempts, probed, subject_str,
          common_name, python, params, node_topology, facts, dcs, oc_empty,
          selector, approved, ops>>

env_vars == <<node_list, cluster>>
match_vars == <<not_ready_nodes, not_ready_nodes_server, csrs, csr_dict>>
approve_vars == <<next_csr, approve_results, approved>>
poll_vars == <<nodes_server_ready, poll_not_ready, attempts, probed>>
parse_vars == <<subject_str, common_name>>
es_vars == <<python, params, node_topology, facts, dcs, oc_empty, selector>>
csr_vars == <<node_list, cluster, mode, result, not_ready_nodes,
              not_ready_nodes_server, csrs, csr_dict, next_csr, approve_results,
              nodes_server_ready, poll_not_ready, attempts, probed, subject_str,
              common_name, approved, ops>>

\* The elasticsearch modules are not running.  oc_csr_approve.py runs the
\* same under both interpreters (lines 23-26); its runs are explored under one.
EsIdle ==
    /\ python = 3
    /\ params = <<>>
    /\ node_topology = <<>>
    /\ facts = <<>>
    /\ dcs = <<>>
    /\ oc_empty = "quiet"
    /\ selector = ""

\* A msg: str(err) of a failed command or of a JSONDecodeError, whose text
\* names the command it comes from, or a text with the nodes it lists.
Msg(text, nodes) == [text |-> text, nodes |-> nodes]

\* The dictionary every failing helper builds before module.fail_json.
FailResult(msg) ==
    [failed |-> TRUE, changed |-> FALSE, msg |-> msg, state |-> "unknown"]

Init ==
    /\ node_list \in Rosters
    /\ cluster = <<>>
    /\ pc = "get_ready_nodes"
    /\ mode = "client"
    /\ status = "running"
    /\ output = <<>>
    /\ result = [changed |-> FALSE, rc |-> 0]
    /\ not_ready_nodes = <<>>
    /\ not_ready_nodes_server = <<>>
    /\ csrs = <<>>
    /\ csr_dict = <<>>
    /\ next_csr = 1
    /\ approve_results = <<>>
    /\ nodes_server_ready = {}
    /\ poll_not_ready = {}
    /\ attempts = 0
    /\ probed = {}
    /\ EsIdle
    /\ subject_str = <<>>
    /\ common_name = NotFound
    /\ approved = <<>>
    /\ ops = {}

FailJsonAndGoOn(out) ==
    /\ status' = "fail_json"
    /\ output' = out
    /\ pc' = pc

\* module.fail_json(**out): the run ends here.
fail_json(out) ==
    /\ status' = "fail_json"
    /\ output' = out
    /\ pc' = "done"

Began(op) == ops' = ops \cup {<<op, mode>>}

\* ------------------------------------------------------------------ run_module
\* Lines 253-255: get_ready_nodes, then the roster nodes that are not Ready.
GetReadyNodes ==
    /\ pc = "get_ready_nodes"
    /\ Began("get_ready_nodes")
    /\ \/ \E ready \in SUBSET Range(node_list) :
             /\ not_ready_nodes' = NotIn(node_list, ready)
             /\ pc' = "get_csrs"
             /\ UNCHANGED <<status, output>>
       \/ /\ fail_json(FailResult(Msg("oc get nodes: stderr", {})))
          /\ UNCHANGED not_ready_nodes
       \/ /\ fail_json(FailResult(Msg("oc get nodes: JSONDecodeError", {})))
          /\ UNCHANGED not_ready_nodes
    /\ UNCHANGED <<es_vars, parse_vars, env_vars, mode, result, not_ready_nodes_server, csrs, csr_dict,
                   approve_vars, poll_vars>>

\* The CSRs that reached the cluster since the last listing get the next
\* names; `created` (metadata.creationTimestamp) is 1 for a CSR created
\* before the first listing and 2 for one created between the listings.
Arrive(shapes) ==
    cluster \o [k \in 1..Len(shapes) |->
                  [name |-> Len(cluster) + k,
                   created |-> IF mode = "client" THEN 1 ELSE 2,
                   conditions |-> shapes[k].conditions,
                   usages |-> shapes[k].usages,
                   request |-> shapes[k].request]]

\* Lines 258 and 280: get_csrs.
GetCsrs ==
    /\ pc = "get_csrs"
    /\ Began("get_csrs")
    /\ \/ \E shapes \in ShapeLists(MaxCsrs - Len(cluster)) :
             /\ cluster' = Arrive(shapes)
             /\ csrs' = cluster'
             /\ pc' = "process_csrs"
             /\ UNCHANGED <<status, output>>
       \/ /\ fail_json(FailResult(Msg("oc get csr: stderr", {})))
          /\ UNCHANGED <<cluster, csrs>>
       \/ /\ fail_json(FailResult(Msg("oc get csr: JSONDecodeError", {})))
          /\ UNCHANGED <<cluster, csrs>>
    /\ UNCHANGED <<es_vars, parse_vars, node_list, mode, result, not_ready_nodes, not_ready_nodes_server,
                   csr_dict, approve_vars, poll_vars>>

\* Lines 261 and 283: process_csrs.
ProcessCsrs ==
    /\ pc = "process_csrs"
    /\ Began("process_csrs")
    /\ LET r == process_csrs(csrs, node_list, mode)
       IN  IF r.kind = "return"
           THEN /\ csr_dict' = r.csr_dict
                /\ pc' = "confirm"
                /\ UNCHANGED <<status, output>>
           ELSE IF r.kind = "fail_json"
           THEN /\ fail_json(FailResult(Msg("openssl req: stderr", {})))
                /\ UNCHANGED csr_dict
           ELSE /\ status' = "exception"
                /\ pc' = "done"
                /\ UNCHANGED <<output, csr_dict>>
    /\ UNCHANGED <<es_vars, parse_vars, env_vars, mode, result, not_ready_nodes, not_ready_nodes_server,
                   csrs, approve_vars, poll_vars>>

\* Lines 265 and 288: confirm_needed_requests_present.
ConfirmNeededRequestsPresent ==
    /\ pc = "confirm"
    /\ Began("confirm")
    /\ LET missing == nodes_needed(IF mode = "client" THEN not_ready_nodes
                                   ELSE not_ready_nodes_server, csr_dict)
       IN  IF missing # {}
           THEN /\ fail_json(FailResult(Msg("Cound not find csr for nodes", missing)))
                /\ UNCHANGED <<next_csr, approve_results>>
           ELSE /\ pc' = "approve"
                /\ next_csr' = 1
                /\ approve_results' = <<>>
                /\ UNCHANGED <<status, output>>
    /\ UNCHANGED <<es_vars, parse_vars, env_vars, mode, result, match_vars, approved, poll_vars>>


\* ------------------------------------------------------------------ approve_csrs
\* stdout of `oc adm certificate approve <csr>`.
ApproveStdout(csr, rtnc) ==
    [csr |-> csr, text |-> IF rtnc = 0 THEN "approved" ELSE ""]

ApproveNeverFailed(rtnc) == FALSE

\* Line 184: `if rtnc:`.
ApproveFailed(rtnc) == rtnc # 0

ApproveFailResultWithoutResults(res_mode, results) ==
    IF res_mode = "client"
    THEN [failed |-> TRUE, changed |-> FALSE,
          msg |-> [text |-> "oc adm certificate approve: stderr", nodes |-> {}],
          client_approve_results |-> <<>>, state |-> "unknown"]
    ELSE [failed |-> TRUE, changed |-> FALSE,
          msg |-> [text |-> "oc adm certificate approve: stderr", nodes |-> {}],
          server_approve_results |-> <<>>, state |-> "unknown"]

\* Lines 185-189: the dictionary approve_csrs fails with.
ApproveFailResult(res_mode, results) ==
    IF res_mode = "client"
    THEN [failed |-> TRUE, changed |-> FALSE, msg |-> Msg("oc adm certificate approve: stderr", {}),
          client_approve_results |-> results, state |-> "unknown"]
    ELSE [failed |-> TRUE, changed |-> FALSE, msg |-> Msg("oc adm certificate approve: stderr", {}),
          server_approve_results |-> results, state |-> "unknown"]

\* The cluster after a successful approval of the CSR named csr.
MarkApproved(csr) ==
    [k \in 1..Len(cluster) |->
        IF cluster[k].name = csr
        THEN [cluster[k] EXCEPT !.conditions = Append(@, "Approved")]
        ELSE cluster[k]]

\* Lines 180-190: one pass of the for loop of approve_csrs.
ApproveCsr ==
    /\ pc = "approve"
    /\ next_csr <= Len(csr_dict)
    /\ Began("approve")
    /\ \E rtnc \in {0, 1} :
         LET csr == csr_dict[next_csr][1]
             results == Append(approve_results, ApproveStdout(csr, rtnc))
         IN  /\ approved' = Append(approved, [mode |-> mode, csr |-> csr, rtnc |-> rtnc])
             /\ approve_results' = results
             /\ cluster' = IF rtnc = 0 THEN MarkApproved(csr) ELSE cluster
             /\ IF ApproveFailed(rtnc)
                THEN /\ fail_json(ApproveFailResult(mode, results))
                     /\ UNCHANGED next_csr
                ELSE /\ next_csr' = next_csr + 1
                     /\ UNCHANGED <<pc, status, output>>
    /\ UNCHANGED <<es_vars, parse_vars, node_list, mode, result, match_vars, poll_vars>>

ChangedByServerOnly(client_approve_results, server_approve_results) ==
    server_approve_results # <<>>

\* Line 293.
Changed(client_approve_results, server_approve_results) ==
    client_approve_results # <<>> \/ server_approve_results # <<>>

\* Line 191, then lines 270 (client) or 291-293 (server).
ApproveReturn ==
    /\ pc = "approve"
    /\ next_csr > Len(csr_dict)
    /\ ops' = ops \cup {<<"approved", mode>>}
    /\ IF mode = "client"
       THEN /\ result' = [client_approve_results |-> approve_results] @@ result
            /\ pc' = "get_ready_nodes_server"
       ELSE /\ result' =
                 [server_approve_results |-> approve_results,
                  changed |-> Changed(result.client_approve_results, approve_results)]
                 @@ result
            /\ pc' = "verify_server_csrs"
    /\ UNCHANGED <<es_vars, parse_vars, env_vars, mode, status, output, match_vars, approve_vars, poll_vars>>

\* ------------------------------------------------------------------ server health
\* Lines 274-277: get_ready_nodes_server over the roster; a probe of a node
\* succeeds or fails as the node's endpoint answers.
GetReadyNodesServer ==
    /\ pc = "get_ready_nodes_server"
    /\ mode' = "server"
    /\ ops' = ops \cup {<<"get_ready_nodes_server", "server">>}
    /\ \E ready \in SUBSET Range(node_list) :
         /\ nodes_server_ready' = ready
         /\ not_ready_nodes_server' = NotIn(node_list, ready)
    /\ probed' = Range(node_list)
    /\ pc' = "get_csrs"
    /\ UNCHANGED <<es_vars, parse_vars, env_vars, status, output, result, not_ready_nodes, csrs, csr_dict,
                   approve_vars, poll_not_ready, attempts>>

\* Lines 213-218 of verify_server_csrs.
VerifyFirstProbe ==
    /\ pc = "verify_server_csrs"
    /\ Began("verify_server_csrs")
    /\ attempts' = 0
    /\ \E ready \in SUBSET Range(node_list) :
         /\ nodes_server_ready' = ready
         /\ poll_not_ready' = Range(node_list) \ ready
    /\ probed' = Range(node_list)
    /\ pc' = "verify_loop"
    /\ UNCHANGED <<es_vars, parse_vars, env_vars, mode, status, output, result, match_vars, approve_vars>>

RoundProbesUnreached(not_ready, ready) == not_ready \ ready

\* Line 220: each pass of the loop probes not_ready_nodes_server, which the
\* loop never changes, whatever the pass before has found.
RoundProbes(not_ready, ready) == not_ready

AnyNowReady(ready, not_ready) == ready # {}

\* Line 224.
AllNowReady(ready, not_ready) == Cardinality(ready) = Cardinality(not_ready)

OutOfAttemptsEarly(n) == n > 8

\* Line 227.
OutOfAttempts(n) == n > 9

MarkFailedOnly(res, missing) ==
    [failed |-> TRUE, rc |-> 1,
     msg |-> Msg("Some nodes still not ready after approving server certs", missing)]

MissingNodesAll(not_ready, ready) == not_ready

\* Line 230.
missing_nodes(not_ready, ready) == not_ready \ ready

\* Lines 228-233.
MarkFailed(res, missing) ==
    [failed |-> TRUE, rc |-> 1,
     msg |-> Msg("Some nodes still not ready after approving server certs", missing)]
    @@ res

\* Lines 219-233: one pass of the while loop.
VerifyRound ==
    /\ pc = "verify_loop"
    /\ poll_not_ready # {}
    /\ probed' = RoundProbes(poll_not_ready, nodes_server_ready)
    /\ \E ready \in SUBSET probed' :
         /\ nodes_server_ready' = ready
         /\ IF AllNowReady(ready, poll_not_ready)
            THEN /\ pc' = "exit_json"
                 /\ UNCHANGED <<attempts, result>>
            ELSE /\ attempts' = IF attempts < AttemptsCap THEN attempts + 1 ELSE attempts
                 /\ result' = IF OutOfAttempts(attempts')
                              THEN MarkFailed(result, missing_nodes(poll_not_ready, ready))
                              ELSE result
                 /\ UNCHANGED pc
    /\ UNCHANGED <<es_vars, parse_vars, env_vars, mode, status, output, match_vars, approve_vars,
                   poll_not_ready, ops>>

\* Line 219 with nothing left to wait for.
VerifyReturn ==
    /\ pc = "verify_loop"
    /\ poll_not_ready = {}
    /\ pc' = "exit_json"
    /\ UNCHANGED <<es_vars, parse_vars, env_vars, mode, status, output, result, match_vars, approve_vars,
                   poll_vars, ops>>

\* Line 297.
ExitJson ==
    /\ pc = "exit_json"
    /\ status' = "exit_json"
    /\ output' = result
    /\ pc' = "done"
    /\ UNCHANGED <<es_vars, parse_vars, env_vars, mode, result, match_vars, approve_vars, poll_vars, ops>>

Next ==
    \/ GetReadyNodes
    \/ GetCsrs
    \/ ProcessCsrs
    \/ ConfirmNeededRequestsPresent
    \/ ApproveCsr
    \/ ApproveReturn
    \/ GetReadyNodesServer
    \/ VerifyFirstProbe
    \/ VerifyRound
    \/ VerifyReturn
    \/ ExitJson

Spec == Init /\ [][Next]_vars

\* The operations begun when approve_csrs is called in phase m.
OpsBeforeApprove(m) ==
    LET before == {"get_csrs", "process_csrs", "confirm"}
        client == {<<"get_ready_nodes", "client">>} \cup {<<o, "client">> : o \in before}
    IN  IF m = "client"
        THEN client
        ELSE client \cup {<<"approved", "client">>, <<"get_ready_nodes_server", "server">>}
                    \cup {<<o, "server">> : o \in before}

\* approve_csrs by itself: run_module at line 268 or 289 with every roster
\* node ready, on each listing of at most MaxMatched CSRs that matching
\* accepts (for the server phase: CSRs that arrived after a client phase
\* that found none).
ApproveInit ==
    /\ node_list \in Rosters
    /\ mode \in {"client", "server"}
    /\ \E shapes \in ShapeLists(MaxMatched) :
         /\ cluster = [k \in 1..Len(shapes) |->
                          [name |-> k,
                           created |-> IF mode = "client" THEN 1 ELSE 2,
                           conditions |-> shapes[k].conditions,
                           usages |-> shapes[k].usages,
                           request |-> shapes[k].request]]
         /\ process_csrs(cluster, node_list, mode).kind = "return"
         /\ csr_dict = process_csrs(cluster, node_list, mode).csr_dict
    /\ csrs = cluster
    /\ pc = "approve"
    /\ status = "running"
    /\ output = <<>>
    /\ result = IF mode = "client"
                THEN [changed |-> FALSE, rc |-> 0]
                ELSE [changed |-> FALSE, rc |-> 0, client_approve_results |-> <<>>]
    /\ not_ready_nodes = <<>>
    /\ not_ready_nodes_server = <<>>
    /\ next_csr = 1
    /\ approve_results = <<>>
    /\ nodes_server_ready = IF mode = "client" THEN {} ELSE Range(node_list)
    /\ poll_not_ready = {}
    /\ attempts = 0
    /\ probed = {}
    /\ EsIdle
    /\ subject_str = <<>>
    /\ common_name = NotFound
    /\ approved = <<>>
    /\ ops = OpsBeforeApprove(mode)

\* confirm_needed_requests_present by itself: run_module at line 265 or 288,
\* with each set of not-ready roster nodes, on the dictionary matching
\* builds from each listing of at most MaxMatched CSRs that it accepts.
ConfirmInit ==
    /\ node_list \in Rosters
    /\ mode \in {"client", "server"}
    /\ \E shapes \in ShapeLists(MaxMatched) :
         /\ cluster = [k \in 1..Len(shapes) |->
                          [name |-> k,
                           created |-> IF mode = "client" THEN 1 ELSE 2,
                           conditions |-> shapes[k].conditions,
                           usages |-> shapes[k].usages,
                           request |-> shapes[k].request]]
         /\ process_csrs(cluster, node_list, mode).kind = "return"
         /\ csr_dict = process_csrs(cluster, node_list, mode).csr_dict
    /\ csrs = cluster
    /\ pc = "confirm"
    /\ status = "running"
    /\ output = <<>>
    /\ result = IF mode = "client"
                THEN [changed |-> FALSE, rc |-> 0]
                ELSE [changed |-> FALSE, rc |-> 0, client_approve_results |-> <<>>]
    /\ \E ready \in SUBSET Range(node_list) :
         IF mode = "client"
         THEN /\ not_ready_nodes = NotIn(node_list, ready)
              /\ not_ready_nodes_server = <<>>
              /\ nodes_server_ready = {}
         ELSE /\ not_ready_nodes = <<>>
              /\ not_ready_nodes_server = NotIn(node_list, ready)
              /\ nodes_server_ready = ready
    /\ next_csr = 1
    /\ approve_results = <<>>
    /\ poll_not_ready = {}
    /\ attempts = 0
    /\ probed = {}
    /\ EsIdle
    /\ subject_str = <<>>
    /\ common_name = NotFound
    /\ approved = <<>>
    /\ ops = OpsBeforeApprove(mode) \ {<<"confirm", mode>>}

ConfirmNext == ConfirmNeededRequestsPresent

ConfirmSpec == ConfirmInit /\ [][ConfirmNext]_vars

ApproveNext == ApproveCsr \/ ApproveReturn

ApproveSpec == ApproveInit /\ [][ApproveNext]_vars

\* ------------------------------------------------------------------ lines 147-153
\* Distinguished names of at most MaxRdns attributes, and the two ways
\* `openssl req -noout -subject` prints one (docstring of parse_subject_cn).
MaxRdns == 2

DnKeys == {"O", "CN"}

DnValues == { <<"org">>, <<"n1">>, <<"system:node:", "n2">>,
              <<"system:node:", "n1", "system:node:", "x">> }

Dns == UNION {[1..k -> DnKeys \X DnValues] : k \in 0..MaxRdns}

\* /K=V/K=V
RECURSIVE SlashDn(_)
SlashDn(dn) ==
    IF dn = <<>>
    THEN <<>>
    ELSE <<"/", dn[1][1], "=">> \o dn[1][2] \o SlashDn(Tail(dn))

\* K = V, K = V
RECURSIVE CommaDn(_)
CommaDn(dn) ==
    IF dn = <<>>
    THEN <<>>
    ELSE <<dn[1][1], " ", "=", " ">> \o dn[1][2]
         \o (IF Len(dn) > 1 THEN <<",", " ">> \o CommaDn(Tail(dn)) ELSE <<>>)

SubjectLine(dn, notation) ==
    <<"subject=">> \o (IF notation = "slash" THEN SlashDn(dn) ELSE CommaDn(dn))
                   \o <<"\n">>

\* Lines 147-153 by themselves: process_csrs of the client phase at line 147
\* with the one pending client CSR of the listing, whose request openssl has
\* decoded to subject_str.
ParseInit ==
    /\ node_list \in Rosters
    /\ mode = "client"
    /\ cluster = <<[name |-> 1, created |-> 1, conditions |-> <<>>,
                    usages |-> ClientAuth, request |-> "request"]>>
    /\ csrs = cluster
    /\ pc = "parse_subject_cn"
    /\ status = "running"
    /\ output = <<>>
    /\ result = [changed |-> FALSE, rc |-> 0]
    /\ not_ready_nodes = <<>>
    /\ not_ready_nodes_server = <<>>
    /\ csr_dict = <<>>
    /\ next_csr = 1
    /\ approve_results = <<>>
    /\ nodes_server_ready = {}
    /\ poll_not_ready = {}
    /\ attempts = 0
    /\ probed = {}
    /\ EsIdle
    /\ \E dn \in Dns, notation \in {"slash", "comma"} :
         subject_str = SubjectLine(dn, notation)
    /\ common_name = NotFound
    /\ approved = <<>>
    /\ ops = {<<"get_ready_nodes", "client">>, <<"get_csrs", "client">>,
              <<"process_csrs", "client">>}

\* Line 147; an IndexError of parse_subject_cn ends the module.
ParseSubjectCn ==
    /\ pc = "parse_subject_cn"
    /\ common_name' = parse_subject_cn(subject_str)
    /\ IF common_name'.kind = "IndexError"
       THEN status' = "exception" /\ pc' = "done"
       ELSE pc' = "strip_prefix" /\ UNCHANGED status
    /\ UNCHANGED <<es_vars, env_vars, mode, output, result, match_vars, approve_vars,
                   poll_vars, subject_str, ops>>

\* Lines 148-150.
StripPrefix ==
    /\ pc = "strip_prefix"
    /\ common_name' = IF common_name.kind = "str"
                      THEN [common_name EXCEPT !.val = StripNodePrefix(@)]
                      ELSE common_name
    /\ pc' = "lookup"
    /\ UNCHANGED <<es_vars, env_vars, mode, status, output, result, match_vars, approve_vars,
                   poll_vars, subject_str, ops>>

\* Lines 152-153.
Lookup ==
    /\ pc = "lookup"
    /\ csr_dict' = IF common_name.kind = "str" /\ common_name.val \in Range(node_list)
                   THEN DictSet(csr_dict, csrs[1].name, common_name.val)
                   ELSE csr_dict
    /\ pc' = "done"
    /\ UNCHANGED <<es_vars, env_vars, mode, status, output, result, not_ready_nodes,
                   not_ready_nodes_server, csrs, approve_vars, poll_vars,
                   parse_vars, ops>>

ParseNext == ParseSubjectCn \/ StripPrefix \/ Lookup

ParseSpec == ParseInit /\ [][ParseNext]_vars

\* ------------------------------------------------------------------ elasticsearch topology
\* openshift_logging_elasticsearch_topology.py.  Of a node entry the model
\* keeps the keys the module reads (node_role, replicas, node_storage_type,
\* pv_selector, pvc_size) and pvc_name; resource limits, requests, storage
\* group and node selector are copied through by the module and left out.
MaxSize == 4
MaxNodes == 2
MaxReplicas == 3

\* Python's None, for a parameter or key that holds text; an absent pvc_size
\* is NoSize, which Python 2 orders before every other value.
None == "None"
NoSize == 0

NodeRoles == {"master", "clientdatamaster", "clientdata", "data", "client"}
DataRoles == {"data", "clientdata", "clientdatamaster"}
MasterRoles == {"master", "clientdatamaster"}

\* Entries of a desired_topology given to the module.
DesiredNodes ==
    {[node_role |-> r] : r \in NodeRoles}
    \cup {[node_role |-> r, replicas |-> k] : r \in NodeRoles, k \in 1..MaxReplicas}

DesiredTopologies == UNION {[1..k -> DesiredNodes] : k \in 1..MaxNodes}

\* The existing_topology values explored.
ExistingTopologies ==
    { <<>>,
      <<[node_role |-> "clientdata", node_storage_type |-> "emptydir",
         pv_selector |-> None, pvc_size |-> NoSize]>> }
    \cup { <<[node_role |-> "clientdata", node_storage_type |-> "pvc",
              pv_selector |-> None, pvc_size |-> size]>> : size \in {NoSize, 1, 2} }

\* dict.get(key, default)
Get(node, key, default) == IF key \in DOMAIN node THEN node[key] ELSE default

MasterReplicasUncapped(cluster_size) == cluster_size

\* Lines 87-90.
MasterReplicas(cluster_size) == IF cluster_size <= 3 THEN cluster_size ELSE 3

\* Lines 106-110: the entry of data node `node`.
ClientDataNode(p, node) ==
    [node_role |-> IF p.cluster_size > 1 THEN "clientdata" ELSE "clientdatamaster",
     node_storage_type |-> IF p.storage_type # None THEN p.storage_type ELSE "emptydir",
     pvc_size |-> p.pvc_size,
     pvc_name |-> <<p.pvc_prefix, "-", node>>]

\* build_topology_from_vars: `self._pvc_prefix + '-'` is a TypeError when the
\* prefix is None and the loop body runs.
build_topology_from_vars(p) ==
    IF p.cluster_size >= 1 /\ p.pvc_prefix = None
    THEN [kind |-> "TypeError", res |-> <<>>]
    ELSE [kind |-> "return",
          res |-> [node \in 1..p.cluster_size |-> ClientDataNode(p, node - 1)]
                  \o (IF p.cluster_size > 1
                      THEN <<[node_role |-> "master",
                              replicas |-> MasterReplicas(p.cluster_size)]>>
                      ELSE <<>>)]

\* `a <= b` of line 148 on two pvc sizes: Python 3 does not order None.
SizeLe(py, a, b) ==
    IF py = 3 /\ (a = NoSize \/ b = NoSize) THEN "TypeError"
    ELSE IF a <= b THEN "True" ELSE "False"

Without(seq, i) == SubSeq(seq, 1, i - 1) \o SubSeq(seq, i + 1, Len(seq))

\* pop_matching_emptydir_node and pop_matching_hostmount_node (the explored
\* entries have no nodeSelector and no hostmount_path): the pool without its
\* first data node of the storage type.
PopMatchingByType(storage, nodes_ex) ==
    LET hits == {i \in 1..Len(nodes_ex) :
                    /\ nodes_ex[i].node_role \in DataRoles
                    /\ Get(nodes_ex[i], "node_storage_type", None) = storage}
    IN  IF hits = {} THEN nodes_ex
        ELSE Without(nodes_ex, CHOOSE i \in hits : \A j \in hits : i <= j)

\* pop_matching_pvc_node from index i on.
RECURSIVE PopMatchingPvc(_, _, _, _)
PopMatchingPvc(py, cur_node, nodes_ex, i) ==
    IF i > Len(nodes_ex)
    THEN [kind |-> "return", pool |-> nodes_ex]
    ELSE IF /\ nodes_ex[i].node_role \in DataRoles
            /\ Get(nodes_ex[i], "node_storage_type", None) = "pvc"
            /\ Get(nodes_ex[i], "pv_selector", None) = Get(cur_node, "pv_selector", None)
         THEN LET le == SizeLe(py, Get(nodes_ex[i], "pvc_size", NoSize),
                                   Get(cur_node, "pvc_size", NoSize))
              IN  IF le = "TypeError" THEN [kind |-> "TypeError", pool |-> nodes_ex]
                  ELSE IF le = "True"
                  THEN [kind |-> "return", pool |-> Without(nodes_ex, i)]
                  ELSE PopMatchingPvc(py, cur_node, nodes_ex, i + 1)
         ELSE PopMatchingPvc(py, cur_node, nodes_ex, i + 1)

\* reconcile_data_nodes: "return", or the exception it raises.
RECURSIVE reconcile_data_nodes(_, _, _)
reconcile_data_nodes(py, topology, existing_pool) ==
    IF topology = <<>> THEN "return"
    ELSE LET node == Head(topology)
             nd_storage == Get(node, "node_storage_type", "emptydir")
         IN  IF node.node_role \notin DataRoles THEN "return"
             ELSE IF nd_storage \in {"emptydir", "hostmount"}
             THEN reconcile_data_nodes(py, Tail(topology),
                                       PopMatchingByType(nd_storage, existing_pool))
             ELSE IF nd_storage = "pvc"
             THEN LET popped == PopMatchingPvc(py, node, existing_pool, 1)
                  IN  IF popped.kind = "TypeError" THEN "TypeError"
                      ELSE reconcile_data_nodes(py, Tail(topology), popped.pool)
             ELSE "Exception"

\* int(node['replicas']), 1 on KeyError.
Replicas(node) == IF "replicas" \in DOMAIN node THEN node.replicas ELSE 1

\* The replicas of the entries with a role in `roles`.
RECURSIVE Total(_, _)
Total(topology, roles) ==
    IF topology = <<>> THEN 0
    ELSE (IF Head(topology).node_role \in roles THEN Replicas(Head(topology)) ELSE 0)
         + Total(Tail(topology), roles)

\* Line 215, total_masters / 2 + 1: floor division of ints under Python 2,
\* true division (a float) under Python 3.  A number is kept as its type
\* and twice its value.
HalfPlusOne(py, total_masters) ==
    IF py = 2
    THEN [type |-> "int", halves |-> 2 * ((total_masters \div 2) + 1)]
    ELSE [type |-> "float", halves |-> total_masters + 2]

reconcile_node_configuration(py, topology) ==
    [es_masters_quorum |-> HalfPlusOne(py, Total(topology, MasterRoles)),
     es_recover_expected_data_nodes |-> Total(topology, DataRoles),
     es_recover_expected_nodes |-> Total(topology, NodeRoles)]

\* oc_csr_approve.py is not running.
CsrIdle ==
    /\ node_list = <<>>
    /\ cluster = <<>>
    /\ mode = "client"
    /\ result = [changed |-> FALSE, rc |-> 0]
    /\ not_ready_nodes = <<>>
    /\ not_ready_nodes_server = <<>>
    /\ csrs = <<>>
    /\ csr_dict = <<>>
    /\ next_csr = 1
    /\ approve_results = <<>>
    /\ nodes_server_ready = {}
    /\ poll_not_ready = {}
    /\ attempts = 0
    /\ probed = {}
    /\ subject_str = <<>>
    /\ common_name = NotFound
    /\ approved = <<>>
    /\ ops = {}

\* The module called with a desired topology, or with the variables to build
\* one from.
TopologyInit ==
    /\ python \in {2, 3}
    /\ \E existing \in ExistingTopologies :
         \/ \E desired \in DesiredTopologies :
               params = [existing_topology |-> existing, desired_topology |-> desired,
                         cluster_size |-> 0, storage_type |-> None,
                         pvc_size |-> NoSize, pvc_prefix |-> None]
         \/ \E n \in 0..MaxSize,
               st \in {None, "emptydir", "pvc", "hostmount", "nfs"},
               size \in {NoSize, 1, 2}, prefix \in {None, "logging-es"} :
               params = [existing_topology |-> existing, desired_topology |-> <<>>,
                         cluster_size |-> n, storage_type |-> st,
                         pvc_size |-> size, pvc_prefix |-> prefix]
    /\ node_topology = params.desired_topology
    /\ facts = <<>>
    /\ dcs = <<>>
    /\ oc_empty = "quiet"
    /\ selector = ""
    /\ pc = "build_facts"
    /\ status = "running"
    /\ output = <<>>
    /\ CsrIdle

\* Lines 223-229; an exception ends in fail_json(msg=str(error)), line 279.
BuildTopology ==
    /\ pc = "build_facts"
    /\ LET built == IF node_topology = <<>>
                    THEN build_topology_from_vars(params)
                    ELSE [kind |-> "return", res |-> node_topology]
       IN  IF built.kind = "return"
           THEN /\ node_topology' = built.res
                /\ facts' = [existing_topology |-> params.existing_topology,
                             node_topology |-> built.res]
                /\ pc' = "reconcile_data_nodes"
                /\ UNCHANGED <<status, output>>
           ELSE /\ fail_json([msg |-> built.kind])
                /\ facts' = [existing_topology |-> params.existing_topology]
                /\ UNCHANGED node_topology
    /\ UNCHANGED <<csr_vars, python, params, dcs, oc_empty, selector>>

\* Lines 231-232.
ReconcileDataNodes ==
    /\ pc = "reconcile_data_nodes"
    /\ LET outcome == reconcile_data_nodes(python, node_topology, params.existing_topology)
       IN  IF outcome = "return"
           THEN pc' = "reconcile_node_configuration" /\ UNCHANGED <<status, output>>
           ELSE fail_json([msg |-> outcome])
    /\ UNCHANGED <<csr_vars, es_vars>>

\* Lines 233-236, and exit_json at line 273.
ReconcileNodeConfiguration ==
    /\ pc = "reconcile_node_configuration"
    /\ facts' = [node_config |-> reconcile_node_configuration(python, node_topology)]
                @@ facts
    /\ status' = "exit_json"
    /\ output' = [ansible_facts |-> facts']
    /\ pc' = "done"
    /\ UNCHANGED <<csr_vars, python, params, node_topology, dcs, oc_empty, selector>>

TopologyNext == BuildTopology \/ ReconcileDataNodes \/ ReconcileNodeConfiguration

TopologySpec == TopologyInit /\ [][TopologyNext]_vars

\* ------------------------------------------------------------------ elasticsearch dc facts
\* openshift_logging_elasticsearch_dc_facts.py.  A deployment config is its
\* position in `dcs`, the label that ties it to the cluster ("cluster-name"
\* or "component" with the cluster's name as value, "other" for neither) and
\* its es-node-role label ("none" when it has no such label).
MaxDcs == 2

DcShapes ==
    [label : {"cluster-name", "component", "other"}, role : {"master", "data", "none"}]

DcLists == UNION {[1..k -> DcShapes] : k \in 0..MaxDcs}

\* What `oc get` prints for a selection without resources: nothing at all, or
\* "No resources found." on stderr, depending on the oc binary.
OcEmptyBehaviours == {"quiet", "No resources found"}

RECURSIVE Select(_, _, _)
\* The names, one per line (line 29), of the deployment configs from
\* position i on that carry the label and pass the role filter.
Select(label, role_filter, i) ==
    IF i > Len(dcs) THEN <<>>
    ELSE (IF /\ dcs[i].label = label
             /\ \/ role_filter = "any"
                \/ role_filter = "=master" /\ dcs[i].role = "master"
                \/ role_filter = "!=master" /\ dcs[i].role # "master"
          THEN <<i>> ELSE <<>>)
         \o Select(label, role_filter, i + 1)

\* oc_command for `get` with selector `-l label[,es-node-role<filter>]`: stdout
\* as a str with these lines, the list [] of lines 80-83, or the exception of
\* line 87.  Under Python 3 stderr is bytes and `'not found' in err` is a
\* TypeError, which line 85 catches and line 87 raises again.
oc_command(label, role_filter) ==
    LET out == Select(label, role_filter, 1)
    IN  IF out # <<>> \/ oc_empty = "quiet"
        THEN [kind |-> "return", type |-> "str", lines |-> out]
        ELSE IF python = 2
        THEN [kind |-> "return", type |-> "list", lines |-> <<>>]
        ELSE [kind |-> "Exception", type |-> "str",
              lines |-> <<"There was an exception trying to run the command">>]

\* facts_for_dcs: a list has no splitlines.
facts_for_dcs(label, role_filter) ==
    LET found == oc_command(label, role_filter)
    IN  IF found.kind = "return" /\ found.type = "list"
        THEN [kind |-> "AttributeError", type |-> "str",
              lines |-> <<"'list' object has no attribute 'splitlines'">>]
        ELSE found

\* detect_es_cluster_selector: the selector chosen, or the exception raised.
detect_es_cluster_selector ==
    LET dclist == oc_command("cluster-name", "any")
        olddclist == oc_command("component", "any")
    IN  IF dclist.kind # "return" THEN [kind |-> dclist.kind, val |-> dclist.lines]
        ELSE IF Len(dclist.lines) # 0 THEN [kind |-> "return", val |-> "cluster-name"]
        ELSE IF olddclist.kind # "return" THEN [kind |-> olddclist.kind, val |-> olddclist.lines]
        ELSE IF Len(olddclist.lines) # 0 THEN [kind |-> "return", val |-> "component"]
        ELSE [kind |-> "Exception", val |-> <<"No known cluster is deployed">>]

\* Lines 186-191: the module starts in a namespace holding `dcs`.
DcFactsInit ==
    /\ python \in {2, 3}
    /\ dcs \in DcLists
    /\ oc_empty \in OcEmptyBehaviours
    /\ selector = "cluster-name"
    /\ facts = <<>>
    /\ params = <<>>
    /\ node_topology = <<>>
    /\ pc = "detect_es_cluster_selector"
    /\ status = "running"
    /\ output = <<>>
    /\ CsrIdle

\* Line 166; an exception ends in fail_json(msg=str(error)), line 198.
DetectEsClusterSelector ==
    /\ pc = "detect_es_cluster_selector"
    /\ LET detected == detect_es_cluster_selector
       IN  IF detected.kind = "return"
           THEN /\ selector' = detected.val
                /\ pc' = "facts_for_masternodes"
                /\ UNCHANGED <<status, output>>
           ELSE /\ fail_json([msg |-> detected.val])
                /\ UNCHANGED selector
    /\ UNCHANGED <<csr_vars, python, params, node_topology, facts, dcs, oc_empty>>

\* Line 168: facts_for_masternodes.
FactsForMasternodes ==
    /\ pc = "facts_for_masternodes"
    /\ LET dc_list == facts_for_dcs(selector, "=master")
       IN  IF dc_list.kind = "return"
           THEN /\ facts' = [masters |-> dc_list.lines]
                /\ pc' = "facts_for_nonmasternodes"
                /\ UNCHANGED <<status, output>>
           ELSE /\ fail_json([msg |-> dc_list.lines])
                /\ UNCHANGED facts
    /\ UNCHANGED <<csr_vars, python, params, node_topology, dcs, oc_empty, selector>>

\* Lines 169-171: facts_for_nonmasternodes and the return, then exit_json at
\* line 192.
FactsForNonmasternodes ==
    /\ pc = "facts_for_nonmasternodes"
    /\ LET dc_list == facts_for_dcs(selector, "!=master")
       IN  IF dc_list.kind = "return"
           THEN /\ facts' = [nonmasters |-> dc_list.lines] @@ facts
                /\ status' = "exit_json"
                /\ output' = [ansible_facts |-> facts']
                /\ pc' = "done"
           ELSE /\ fail_json([msg |-> dc_list.lines])
                /\ UNCHANGED facts
    /\ UNCHANGED <<csr_vars, python, params, node_topology, dcs, oc_empty, selector>>

DcFactsNext == DetectEsClusterSelector \/ FactsForMasternodes \/ FactsForNonmasternodes

DcFactsSpec == DcFactsInit /\ [][DcFactsNext]_vars


\* ------------------------------------------------------------------ properties
\* The item of a listing with a given name.
Item(listing, name) == listing[CHOOSE k \in 1..Len(listing) : listing[k].name = name]

\* A Common Name with its system:node: prefix, if it has one, taken off.
WithoutNodePrefix(cn) ==
    IF cn # <<>> /\ Head(cn) = "system:node:" THEN Tail(cn) ELSE cn

\* The item is pending, has the phase's usage, and its Common Name without
\* the prefix is a node of the roster.
Eligible(item, m, roster) ==
    /\ item.conditions = <<>>
    /\ CERT_MODE(m) \in item.usages
    /\ openssl(item.request).rc = 0
    /\ LET cn == parse_subject_cn(openssl(item.request).stdout)
       IN  cn.kind = "str" /\ WithoutNodePrefix(cn.val) \in Range(roster)

\* The approve commands of phase m, in the order they were run.
Approvals(m) == SelectSeq(approved, LAMBDA a : a.mode = m)

Ended == status \in {"exit_json", "fail_json"}

\* C1: every approval issued in a phase targets a CSR that was pending in the
\* phase's listing, has the phase's usage token there, and whose Common Name
\* without the system:node: prefix is a node of the roster.
C1_ApprovalsOnlyForRosterIdentities ==
    \A k \in 1..Len(approved) :
        approved[k].mode = mode =>
            Eligible(Item(csrs, approved[k].csr), mode, node_list)

\* C2: when process_csrs returns, its dictionary is exactly csr name -> node
\* name over the items that are pending, have the class's usage and whose
\* Common Name without the prefix is an expected node.
C2_ProcessCsrsExactMapping ==
    pc = "confirm" =>
        /\ \A k \in 1..Len(csrs) :
              Eligible(csrs[k], mode, node_list) <=> csrs[k].name \in Keys(csr_dict)
        /\ \A j \in 1..Len(csr_dict) :
              csr_dict[j][2] =
                  WithoutNodePrefix(parse_subject_cn(
                      openssl(Item(csrs, csr_dict[j][1]).request).stdout).val)

\* The not-ready nodes completeness is verified against in phase m.
NotReady(m) == IF m = "client" THEN not_ready_nodes ELSE not_ready_nodes_server

MissingCsrAbort ==
    status = "fail_json" /\ output.msg.text = "Cound not find csr for nodes"

\* C3: an approval is issued in a phase only when every not-ready node of the
\* phase has a matched CSR, and a run that aborts for a missing CSR has
\* issued no approval in that phase.
C3_ApprovalGatedByCompleteness ==
    /\ Approvals(mode) # <<>> =>
          /\ Range(NotReady(mode)) \subseteq Values(csr_dict)
          /\ <<"confirm", mode>> \in ops
    /\ MissingCsrAbort => Approvals(mode) = <<>>

C3_Witness ==
    /\ MissingCsrAbort
    /\ mode = "server"
    /\ Approvals("client") # <<>>
    /\ Values(csr_dict) # {}

ServerOps == {o \in ops : o[2] = "server"}

ClientPhaseCompleted ==
    /\ {<<"process_csrs", "client">>, <<"confirm", "client">>,
        <<"approved", "client">>} \subseteq ops
    /\ "client_approve_results" \in DOMAIN result
    /\ Len(result.client_approve_results) = Len(Approvals("client"))
    /\ \A k \in 1..Len(approved) : approved[k].mode = "client" => approved[k].rtnc = 0

\* C4: a server-phase operation happens only after client matching, client
\* verification and every client approval have finished successfully.
C4_ServerPhaseAfterClientPhase ==
    /\ ServerOps # {} => ClientPhaseCompleted
    /\ mode = "server" => ClientPhaseCompleted

C4_Witness ==
    /\ Approvals("server") # <<>>
    /\ Approvals("client") # <<>>

\* The retries verify_server_csrs is documented to make (line 211).
MaxAttempts == 10

\* C5: the poller stops after MaxAttempts unsuccessful rounds: once that many
\* rounds have failed it is not at the head of its loop again.
C5_PollerStopsAfterMaxAttempts ==
    pc = "verify_loop" => attempts < MaxAttempts


ApproveAbort ==
    status = "fail_json" /\ output.msg.text = "oc adm certificate approve: stderr"

\* The approval outcomes a failure of phase m reports.
Reported(m) ==
    IF m = "client" THEN output.client_approve_results
    ELSE output.server_approve_results

\* C6: approve_csrs issues its approvals in the order of the mapping and stops
\* at the first that fails: no approval follows a failed one, and the error
\* carries, in order, the outcomes of the approvals that succeeded before it
\* and no outcome of a CSR after it.
C6_ApproveStopsAtFirstFailure ==
    /\ \A j \in 1..(Len(approved) - 1) : approved[j].rtnc = 0
    /\ ApproveAbort =>
          LET A == Approvals(mode)
              k == Len(A)
              R == Reported(mode)
          IN  /\ k >= 1
              /\ A[k].rtnc # 0
              /\ \A j \in 1..k : A[j].csr = csr_dict[j][1]
              /\ Len(R) >= k - 1
              /\ \A j \in 1..(k - 1) :
                    R[j] = [csr |-> csr_dict[j][1], text |-> "approved"]
              /\ \A j \in (k + 1)..Len(csr_dict) :
                    \A e \in 1..Len(R) : R[e].csr # csr_dict[j][1]

C6_Witness ==
    /\ ApproveAbort
    /\ Len(csr_dict) = 3
    /\ Len(Approvals(mode)) = 2

\* C7: whatever way the run ends, the reported `changed` is true exactly when
\* some approval was carried out successfully during the run.
C7_ChangedIffSomeApprovalSucceeded ==
    Ended =>
        (output.changed <=> \E k \in 1..Len(approved) : approved[k].rtnc = 0)

\* C8: when an approval fails, the failure result holds the outcome of every
\* approval run so far, the client-phase ones included.
C8_FailureKeepsEveryOutcome ==
    ApproveAbort =>
        \A k \in 1..Len(approved) :
            \E key \in {"client_approve_results", "server_approve_results"}
                         \cap DOMAIN output :
                \E e \in 1..Len(output[key]) : output[key][e].csr = approved[k].csr

\* Matching of the phase has run and nothing of the phase after it has.
MatchingJustRan ==
    /\ <<"process_csrs", mode>> \in ops
    /\ <<"confirm", mode>> \notin ops

\* A pending item with the phase's usage whose request openssl cannot decode.
Undecodable(item, m) ==
    /\ item.conditions = <<>>
    /\ CERT_MODE(m) \in item.usages
    /\ openssl(item.request).rc # 0

\* C9 as claimed: a decode failure of one CSR does not abort the run; the
\* scan goes on and matching returns.
C9_DecodeFailureIsSkipped ==
    MatchingJustRan => pc = "confirm"

\* C9 as amended: matching aborts the run through fail_json exactly when the
\* listing holds a pending CSR with the phase's usage that cannot be decoded;
\* then nothing is matched and no approval of the phase is issued.
C9_DecodeFailureAborts ==
    MatchingJustRan =>
        IF \E k \in 1..Len(csrs) : Undecodable(csrs[k], mode)
        THEN /\ pc = "done"
             /\ status = "fail_json"
             /\ output = FailResult(Msg("openssl req: stderr", {}))
             /\ Approvals(mode) = <<>>
        ELSE status = "running"

C9_Witness ==
    /\ MatchingJustRan
    /\ status = "fail_json"
    /\ \E k \in 1..Len(csrs) : Eligible(csrs[k], mode, node_list)

QueryAbort ==
    /\ status = "fail_json"
    /\ output.msg.text \in {"oc get nodes: stderr", "oc get nodes: JSONDecodeError",
                            "oc get csr: stderr", "oc get csr: JSONDecodeError"}

\* C10 as claimed: a run that aborts for a query failure has issued no
\* approval.
C10_QueryAbortBeforeAnyApproval ==
    QueryAbort => approved = <<>>

\* C10 as amended: a query failure ends the run at once; no approval of the
\* phase the query belongs to has been issued, and none at all when the node
\* listing or the first CSR listing fails.
C10_QueryAbortBeforePhaseApprovals ==
    QueryAbort =>
        /\ pc = "done"
        /\ <<"process_csrs", mode>> \notin ops
        /\ Approvals(mode) = <<>>
        /\ mode = "client" => approved = <<>>

C10_Witness ==
    /\ QueryAbort
    /\ mode = "server"
    /\ approved # <<>>


\* confirm_needed_requests_present has run in the phase.
ConfirmRan == <<"confirm", mode>> \in ops

\* The not-ready nodes of the phase that no value of the mapping covers.
Uncovered == Range(NotReady(mode)) \ Values(csr_dict)

\* C11: confirm_needed_requests_present fails exactly when some not-ready
\* node is no value of the mapping; the nodes it names are exactly those
\* nodes; it goes on to the approvals otherwise; it runs once and leaves the
\* cluster alone.
C11_ConfirmFailsExactlyOnUncovered ==
    ConfirmRan =>
        /\ status = "fail_json" <=> Uncovered # {}
        /\ status = "fail_json" =>
              /\ output = FailResult(Msg("Cound not find csr for nodes", Uncovered))
              /\ pc = "done"
        /\ status # "fail_json" => status = "running" /\ pc = "approve"
        /\ cluster = csrs
        /\ approved = <<>>

C11_Witness ==
    /\ ConfirmRan
    /\ status = "fail_json"
    /\ Range(NotReady(mode)) = {N1, N2}
    /\ Values(csr_dict) = {N1}
    /\ output.msg.nodes = {N2}


\* The item was pending in a listing of the run: it still is, or the run
\* issued its approval.
WasPending(item) ==
    \/ item.conditions = <<>>
    \/ \E k \in 1..Len(approved) : approved[k].csr = item.name

\* The item is a CSR of node n2 with exactly the given usages, created no
\* later than the given listing.
CsrOfN2(item, usages, listing) ==
    /\ WasPending(item)
    /\ item.usages = usages
    /\ item.created <= listing
    /\ openssl(item.request).rc = 0
    /\ LET cn == parse_subject_cn(openssl(item.request).stdout)
       IN  cn.kind = "str" /\ WithoutNodePrefix(cn.val) = N2

\* The end-to-end scenario, as far as the run has got: n1 is ready and
\* answers every probe, n2 is not ready, the only CSRs that were ever pending
\* are one client CSR of n2 in the first listing and one server CSR of n2 in
\* the second, no command has failed, and n2 answers the poller.
Scenario ==
    /\ node_list = <<N1, N2>>
    /\ not_ready_nodes = <<N2>>
    /\ \E c, s \in 1..Len(cluster) :
         /\ CsrOfN2(cluster[c], ClientAuth, 1)
         /\ CsrOfN2(cluster[s], ServerAuth, 2)
         /\ \A k \in 1..Len(cluster) : WasPending(cluster[k]) => k \in {c, s}
    /\ \A k \in 1..Len(approved) : approved[k].rtnc = 0
    /\ status = "fail_json" => MissingCsrAbort
    /\ N1 \notin Range(not_ready_nodes_server)
    /\ <<"verify_server_csrs", "server">> \in ops => poll_not_ready = {}

\* C12: in the end-to-end scenario the run does not abort and does not enter
\* a retry round of the poller, and it ends through exit_json with changed
\* true, one client outcome, one server outcome, rc 0 and no failed flag.
C12_ScenarioEndsChanged ==
    Scenario =>
        /\ status # "fail_json"
        /\ attempts = 0
        /\ pc \in {"exit_json", "done"} =>
              /\ result.changed
              /\ Len(result.client_approve_results) = 1
              /\ Len(result.server_approve_results) = 1
              /\ result.rc = 0
              /\ "failed" \notin DOMAIN result
              /\ Len(approved) = 2
        /\ pc = "done" => status = "exit_json" /\ output = result

C12_Witness == Scenario /\ status = "exit_json" /\ output.changed


\* The value of the first CN attribute of a distinguished name, if any.
RECURSIVE CnOf(_)
CnOf(dn) ==
    IF dn = <<>>
    THEN NotFound
    ELSE IF dn[1][1] = "CN"
         THEN [kind |-> "str", val |-> dn[1][2]]
         ELSE CnOf(Tail(dn))

\* parse_subject_cn has just returned.
Parsed == pc = "strip_prefix" \/ (pc = "done" /\ status = "exception")

\* C13: parse_subject_cn returns the value of the CN attribute of the
\* distinguished name, whichever of the two notations the subject line is
\* in, and "not found" when the name has no CN.
C13_ParseReturnsTheCN ==
    Parsed =>
        \A dn \in Dns, notation \in {"slash", "comma"} :
            subject_str = SubjectLine(dn, notation) => common_name = CnOf(dn)

\* Lines 148-153 have run on a Common Name that parse_subject_cn found.
Resolved == pc = "done" /\ parse_subject_cn(subject_str).kind = "str"

\* C14: a Common Name "system:node:" + X resolves to exactly X, and a Common
\* Name without the prefix is looked up in the roster as it is.
C14_PrefixStrippedOnce ==
    Resolved =>
        LET cn == parse_subject_cn(subject_str).val
        IN  /\ common_name.val = WithoutNodePrefix(cn)
            /\ csr_dict # <<>> <=> WithoutNodePrefix(cn) \in Range(node_list)


\* verify_server_csrs has marked the result failed (lines 228-233).
MarkedFailed == "failed" \in DOMAIN result

\* What approve_csrs returns for the approvals issued in phase m.
Outcomes(m) ==
    [k \in 1..Len(Approvals(m)) |->
        ApproveStdout(Approvals(m)[k].csr, Approvals(m)[k].rtnc)]

\* C15: once the poller has marked the result failed, the run has not been
\* aborted, the result has rc 1 and names unready nodes, it still has the
\* outcomes of every client and server approval and the changed flag they
\* gave, and every approved CSR is still approved.
C15_TimeoutKeepsApprovalOutcomes ==
    MarkedFailed =>
        /\ status \in {"running", "exit_json"}
        /\ result.failed /\ result.rc = 1
        /\ result.msg.text = "Some nodes still not ready after approving server certs"
        /\ result.msg.nodes # {} /\ result.msg.nodes \subseteq Range(node_list)
        /\ {"client_approve_results", "server_approve_results", "changed"}
              \subseteq DOMAIN result
        /\ result.client_approve_results = Outcomes("client")
        /\ result.server_approve_results = Outcomes("server")
        /\ result.changed <=> approved # <<>>
        /\ \A k \in 1..Len(approved) :
              approved[k].rtnc = 0 /\ Item(cluster, approved[k].csr).conditions # <<>>
        /\ status = "exit_json" => output = result

C15_Witness ==
    /\ MarkedFailed
    /\ pc = "verify_loop"
    /\ Approvals("client") # <<>>
    /\ Approvals("server") # <<>>

\* C16: a run that ends through exit_json reports changed exactly when it
\* has issued an approval, in either phase.
C16_ChangedIffApprovalIssued ==
    status = "exit_json" =>
        /\ output.changed <=> approved # <<>>
        /\ output.changed <=> (csr_dict # <<>> \/ output.client_approve_results # <<>>)

C16_Witness ==
    /\ status = "exit_json"
    /\ output.changed
    /\ Approvals("client") # <<>>
    /\ Approvals("server") = <<>>


\* A step of the while loop of verify_server_csrs (a stuttering step apart).
InPollLoop == pc = "verify_loop" /\ poll_not_ready # {}

\* C17 as claimed: a round probes only the nodes that the round before left
\* unreachable.
C17_NextRoundProbesOnlyUnreached ==
    [][InPollLoop => probed' = probed \ nodes_server_ready]_vars

\* C17: every pass of the loop probes the whole of not_ready_nodes_server,
\* the nodes the initial probe has not reached, and leaves that set as it is.
C17_EveryRoundProbesTheInitialUnready ==
    [][InPollLoop =>
          /\ probed' = poll_not_ready
          /\ nodes_server_ready' \subseteq probed'
          /\ poll_not_ready' = poll_not_ready]_vars

C17_Witness ==
    /\ pc = "verify_loop"
    /\ attempts >= 2
    /\ nodes_server_ready # {}
    /\ probed = poll_not_ready
    /\ Cardinality(probed) = 2

\* C18 as claimed: a round that finds as many reachable nodes as the round
\* before ends the polling.
C18_NoProgressStopsThePoller ==
    [][InPollLoop /\ Cardinality(nodes_server_ready') = Cardinality(nodes_server_ready)
          => pc' # "verify_loop"]_vars

\* C18: the loop is left at a round only if every node probed in it answers;
\* any other round, with or without progress, counts as one more attempt and
\* the polling goes on.
C18_PollerStopsOnlyWhenAllAnswer ==
    [][InPollLoop =>
          IF nodes_server_ready' = poll_not_ready
          THEN pc' = "exit_json" /\ attempts' = attempts /\ result' = result
          ELSE /\ pc' = "verify_loop"
               /\ \/ attempts' = attempts + 1
                  \/ attempts = AttemptsCap /\ attempts' = attempts]_vars

C18_Witness ==
    /\ pc = "verify_loop"
    /\ attempts = 1
    /\ poll_not_ready = Range(node_list)
    /\ nodes_server_ready = {}

\* C19 as claimed, for the round before the one that marks the failure: a
\* node that answered in it is not named as unready.
C19_NamedNodesNeverAnswered ==
    [][InPollLoop /\ attempts >= 1 /\ pc' = "verify_loop" /\ "failed" \in DOMAIN result'
          => result'.msg.nodes \cap nodes_server_ready = {}]_vars

\* C19: the nodes a marked result names are the nodes of
\* not_ready_nodes_server that did not answer in the latest round.
C19_NamedNodesMissedTheLatestRound ==
    pc = "verify_loop" /\ MarkedFailed =>
        /\ result.msg.nodes = poll_not_ready \ nodes_server_ready
        /\ result.msg.nodes # {}

C19_Witness ==
    /\ pc = "verify_loop"
    /\ MarkedFailed
    /\ nodes_server_ready # {}
    /\ result.msg.nodes # poll_not_ready

\* C20: the result is marked failed exactly from the end of the tenth
\* unsuccessful retry round on, each unsuccessful round counting once.
C20_MarkedFailedAtTheTenthRetry ==
    /\ [](MarkedFailed <=> attempts >= MaxAttempts)
    /\ [][InPollLoop /\ pc' = "verify_loop" =>
             \/ attempts' = attempts + 1
             \/ attempts = AttemptsCap /\ attempts' = attempts]_vars

C20_Witness ==
    /\ pc = "verify_loop"
    /\ attempts = MaxAttempts
    /\ MarkedFailed
    /\ result.msg.nodes # {}


\* C21: no CSR is the target of two approve commands of a run, whatever its
\* usages and in whichever phases the commands are issued.
C21_NoCsrApprovedTwice ==
    \A i, j \in 1..Len(approved) : approved[i].csr = approved[j].csr => i = j

\* A CSR with both usages was approved in the client phase, is in the second
\* listing, and the server phase has issued its approvals.
C21_Witness ==
    /\ <<"approved", "server">> \in ops
    /\ Approvals("server") # <<>>
    /\ \E k \in 1..Len(approved) :
         /\ approved[k].mode = "client"
         /\ \E n \in 1..Len(csrs) :
              csrs[n].name = approved[k].csr /\ csrs[n].usages = BothAuth


\* verify_server_csrs has returned to run_module.
PollerReturned ==
    /\ <<"verify_server_csrs", "server">> \in ops
    /\ pc \in {"exit_json", "done"}

\* C22: when the poller returns with the result marked failed, some node it
\* waited for did not answer in its last round.
C22_FailedReturnHasUnreachedNode ==
    PollerReturned /\ MarkedFailed => poll_not_ready \ nodes_server_ready # {}

\* C23: a run that ends through exit_json with a result that is not marked
\* failed has had every roster node answer a probe of the poller: all of them
\* in the initial probe of the roster, or the ones that probe missed all
\* together in the last round.
C23_UnfailedEndHasEveryNodeAnswer ==
    status = "exit_json" /\ "failed" \notin DOMAIN output =>
        IF poll_not_ready = {}
        THEN /\ probed = Range(node_list)
             /\ nodes_server_ready = Range(node_list)
             /\ attempts = 0
        ELSE /\ probed = poll_not_ready
             /\ nodes_server_ready = poll_not_ready
             /\ attempts < MaxAttempts

C23_Witness ==
    /\ status = "exit_json"
    /\ "failed" \notin DOMAIN output
    /\ poll_not_ready = {N2}
    /\ attempts >= 1


\* The run was given no desired topology and a cluster size of at least one.
BuiltFromVars == params.desired_topology = <<>> /\ params.cluster_size >= 1

\* C24: with no desired topology and cluster size n >= 1, the topology that
\* build_facts builds has n data-node entries and, only when n > 1, one
\* master entry with replicas = min(n, 3); the single entry of n = 1 has role
\* clientdatamaster, otherwise the data entries have role clientdata; and the
\* node_config it reports has es_recover_expected_data_nodes = n and
\* es_recover_expected_nodes = n + min(n, 3) for n > 1, 1 for n = 1.
C24_TopologyBuiltFromVars ==
    BuiltFromVars /\ "node_topology" \in DOMAIN facts =>
        LET n == params.cluster_size
            topology == facts.node_topology
        IN  /\ Len(topology) = IF n > 1 THEN n + 1 ELSE 1
            /\ \A i \in 1..n :
                  topology[i].node_role = IF n = 1 THEN "clientdatamaster" ELSE "clientdata"
            /\ n > 1 => /\ topology[n + 1].node_role = "master"
                        /\ topology[n + 1].replicas = IF n < 3 THEN n ELSE 3
            /\ "node_config" \in DOMAIN facts =>
                  /\ facts.node_config.es_recover_expected_data_nodes = n
                  /\ facts.node_config.es_recover_expected_nodes
                        = IF n = 1 THEN 1 ELSE n + (IF n < 3 THEN n ELSE 3)

C24_Witness ==
    /\ BuiltFromVars
    /\ params.cluster_size > 3
    /\ status = "exit_json"
    /\ "node_config" \in DOMAIN output.ansible_facts

\* C25: the es_masters_quorum reported for a node topology is the integer
\* floor(total_masters / 2) + 1, where total_masters sums the replicas (1
\* when absent) of the entries with role master or clientdatamaster.
C25_QuorumIsIntegerMajority ==
    "node_config" \in DOMAIN facts =>
        LET total_masters == Total(facts.node_topology, MasterRoles)
            quorum == facts.node_config.es_masters_quorum
        IN  /\ quorum.type = "int"
            /\ quorum.halves = 2 * ((total_masters \div 2) + 1)


\* One of the two selectors finds a deployment config.
KnownClusterDeployed ==
    Select("cluster-name", "any", 1) # <<>> \/ Select("component", "any", 1) # <<>>

\* C26: build_facts succeeds whenever the cluster-name selector or, failing
\* that, the old-style component selector finds a deployment config: the
\* facts returned have a masters list and a nonmasters list, either possibly
\* empty; and 'No known cluster is deployed' is raised only when both
\* selectors find nothing.
C26_BuildFactsSucceedsOnKnownCluster ==
    pc = "done" =>
        /\ KnownClusterDeployed =>
              /\ status = "exit_json"
              /\ {"masters", "nonmasters"} \subseteq DOMAIN output.ansible_facts
        /\ status = "fail_json" /\ output.msg = <<"No known cluster is deployed">> =>
              ~KnownClusterDeployed

====
